---------------------------- MODULE Spec2Model ----------------------------
(***************************************************************************)
(* Model of src/APP_PUBLIC_DATA.py: the five-step Streamlit wizard and the *)
(* buffer-and-containment analysis that its step 5 runs.                   *)
(*                                                                         *)
(* Geometry is discrete.  A coordinate pair is a tuple <<x, y>> on a grid  *)
(* whose unit is the slider step (300 m); a polygon is the set of grid     *)
(* points of its interior and the set of grid points on its boundary.      *)
(* Strings that the code parses are sequences of one-character strings.    *)
(***************************************************************************)
EXTENDS Integers, Sequences, FiniteSets, TLC

\* ------------------------------------------------------------------ bounds
\* Rows iterated by one classification loop.
MaxRegistros == 2
\* Sub-points of one multi-point record.
MaxGeoms == 2

\* --------------------------------------------------------------- constants
\* st.slider(min_value=300, max_value=2100, value=600, step=300)
RadioMin == 300
RadioMax == 2100
RadioDefecto == 600
RadioPaso == 300

Radios == {r \in RadioMin..RadioMax : (r - RadioMin) % RadioPaso = 0}

\* ---------------------------------------------------------------- geometry
\* The coordinate pairs that points of the layers and map clicks can take.
Puntos == {<<0, 0>>, <<1, 0>>, <<0, 2>>}

\* Squared planar distance between two coordinate pairs, in grid units.
Dist2(p, q) == (p[1] - q[1]) * (p[1] - q[1]) + (p[2] - q[2]) * (p[2] - q[2])

\* punto -> to_crs(3116) -> buffer(radio) -> to_crs(4326): the disk of the
\* requested radius (metres) around the point, as interior and boundary.
Buffer(punto, radio) ==
  [interior |-> {q \in Puntos :
                   Dist2(punto, q) * RadioPaso * RadioPaso < radio * radio},
   borde    |-> {q \in Puntos :
                   Dist2(punto, q) * RadioPaso * RadioPaso = radio * radio}]

\* area_wgs.contains(pt): boundary-exclusive containment of a point.
Contains(area, pt) == pt \in area.interior

\* The buffers that some click and some slider value produce.
Buffers == {Buffer(p, r) : p \in Puntos, r \in Radios}

\* -------------------------------------------------------------- name field
RECURSIVE SplitAux(_, _, _)
SplitAux(s, cur, acc) ==
  IF s = <<>> THEN Append(acc, cur)
  ELSE IF Head(s) = ";" THEN SplitAux(Tail(s), <<>>, Append(acc, cur))
  ELSE SplitAux(Tail(s), Append(cur, Head(s)), acc)

\* str.split(";"): the pieces between semicolons, at least one piece.
Split(s) == SplitAux(s, <<>>, <<>>)

RECURSIVE LStrip(_)
LStrip(s) == IF s # <<>> /\ Head(s) = " " THEN LStrip(Tail(s)) ELSE s

RECURSIVE RStrip(_)
RStrip(s) ==
  IF s # <<>> /\ s[Len(s)] = " " THEN RStrip(SubSeq(s, 1, Len(s) - 1)) ELSE s

\* str.strip(): leading and trailing blanks removed.
Strip(s) == RStrip(LStrip(s))

\* A null property of a record (NaN in the data frame).
NaN == <<"NaN">>

\* str(nombres_row): a null value prints as "nan".
Str(v) == IF v = NaN THEN <<"n", "a", "n">> ELSE v

\* The default of row.get("nombres", ...) in the station and school loops.
SinNombre == [transporte |-> <<"Estación sin nombre">>,
              colegios   |-> <<"Colegio sin nombre">>]

\* row.get("nombres", default): the default only when the layer has no
\* "nombres" column.
RowGet(row, tiene_nombres, defecto) ==
  IF tiene_nombres THEN row.nombres ELSE defecto

\* lista_nombres = [n.strip() for n in str(nombres_row).split(";")]
ListaNombres(nombres_row) ==
  LET partes == Split(Str(nombres_row))
  IN  [k \in 1..Len(partes) |-> Strip(partes[k])]

\* ---------------------------------------------------------- feature layers
\* Values of the "nombres" property of a record.
NombresCampo ==
  { <<"A">>,
    <<"A", ";", "B">>,
    <<" ", "A", ";", " ", "B", " ">>,
    <<>>,
    NaN }

SeqsUpTo(S, n) == UNION {[1..k -> S] : k \in 1..n}

\* Geometries of a record: a point, a multi-point, or something else.  The
\* part of a multi-polygon is a polygon small enough to be given by the grid
\* point it lies at.
Geometrias ==
       {[tipo |-> "Point", geoms |-> <<p>>] : p \in Puntos}
  \cup {[tipo |-> "MultiPoint", geoms |-> g] : g \in SeqsUpTo(Puntos, MaxGeoms)}
  \cup {[tipo |-> "MultiPolygon", geoms |-> <<p>>] : p \in Puntos}
  \cup {[tipo |-> "Polygon", geoms |-> <<>>], [tipo |-> "None", geoms |-> <<>>]}

\* Rows of a layer: with the "nombres" column, or without it (no name value).
Filas(con_nombres) ==
  [geometry : Geometrias,
   nombres  : IF con_nombres THEN NombresCampo ELSE {NaN}]

\* hasattr(geom, "geoms"): every multi-part geometry has the attribute.
HasGeoms(geom) == geom.tipo \in {"MultiPoint", "MultiPolygon"}

\* Whether the parts of a multi-part geometry have the attributes x and y.
PartesConXY(geom) == geom.tipo = "MultiPoint"

\* isinstance(geom, Point)
IsPoint(geom) == geom.tipo = "Point"

\* ---------------------------------------------- classification (one layer)
\* Lists that start with a point left from elsewhere.
ListasConResto ==
  [area |-> << <<0, 2>> >>, coords |-> << <<0, 2>> >>, nombres |-> << <<"A">> >>]

\* The three parallel lists of one classification loop, as lines 393-395 and
\* 503-505 create them.
ListasVacias == [area |-> <<>>, coords |-> <<>>, nombres |-> <<>>]

Range(s) == {s[k] : k \in 1..Len(s)}

\* The name goes to the front of its list instead of to the end.
AgregarNombreAlFrente(ls, pt, nombre) ==
  [area    |-> Append(ls.area, pt),
   coords  |-> Append(ls.coords, pt),
   nombres |-> <<nombre>> \o ls.nombres]

\* The body of "if coord_tuple not in coords": the three appends.
Agregar(ls, pt, nombre) ==
  [area    |-> Append(ls.area, pt),
   coords  |-> Append(ls.coords, pt),
   nombres |-> Append(ls.nombres, nombre)]

\* A sub-point that is inside the buffer is appended twice over: no
\* membership test on the coordinate list.
SiContieneSinDedup(ls, area_wgs, pt, nombre) ==
  IF Contains(area_wgs, pt) THEN Agregar(ls, pt, nombre) ELSE ls

\* if area_wgs.contains(pt): coord_tuple = (pt.x, pt.y);
\*   if coord_tuple not in coords: append point, coordinate and name.
SiContiene(ls, area_wgs, pt, nombre) ==
  IF Contains(area_wgs, pt) /\ pt \notin Range(ls.coords)
  THEN Agregar(ls, pt, nombre)
  ELSE ls

\* Every sub-point takes the first token.
NombreDeSiemprePrimero(lista_nombres, idx) == lista_nombres[1]

\* nombre = lista_nombres[idx] if idx < len(lista_nombres) else
\* lista_nombres[0], with idx the 0-based position given by enumerate.
NombreDe(lista_nombres, idx) ==
  IF idx < Len(lista_nombres) THEN lista_nombres[idx + 1] ELSE lista_nombres[1]

\* for idx, pt in enumerate(geom.geoms): ...
RECURSIVE BucleGeoms(_, _, _, _, _)
BucleGeoms(ls, area_wgs, geoms, idx, lista_nombres) ==
  IF idx >= Len(geoms) THEN ls
  ELSE BucleGeoms(
         SiContiene(ls, area_wgs, geoms[idx + 1], NombreDe(lista_nombres, idx)),
         area_wgs, geoms, idx + 1, lista_nombres)

\* coord_tuple = (pt.x, pt.y) raises AttributeError on the first part
\* inside the buffer that is not a point.
FilaFalla(area_wgs, row) ==
  /\ HasGeoms(row.geometry)
  /\ ~PartesConXY(row.geometry)
  /\ \E k \in 1..Len(row.geometry.geoms) :
       Contains(area_wgs, row.geometry.geoms[k])

\* One iteration of "for _, row in capa.iterrows()" of the station loop
\* and of the school loop; the lists are as they were when the iteration
\* raises.
ClasificarFila(ls, area_wgs, row, tiene_nombres, defecto) ==
  LET geom          == row.geometry
      nombres_row   == RowGet(row, tiene_nombres, defecto)
      lista_nombres == ListaNombres(nombres_row)
  IN  IF HasGeoms(geom)
      THEN IF PartesConXY(geom)
           THEN BucleGeoms(ls, area_wgs, geom.geoms, 0, lista_nombres)
           ELSE ls
      ELSE IF IsPoint(geom)
      THEN SiContiene(ls, area_wgs, geom.geoms[1], lista_nombres[1])
      ELSE ls

\* Whether the loop over a layer raises.
CapaFalla(area_wgs, capa) == \E k \in 1..Len(capa) : FilaFalla(area_wgs, capa[k])

\* The whole loop over a layer, up to the iteration that raises, if any.
RECURSIVE ClasificarDesde(_, _, _, _, _, _)
ClasificarDesde(ls, area_wgs, capa, k, tiene_nombres, defecto) ==
  IF k > Len(capa) \/ FilaFalla(area_wgs, capa[k]) THEN ls
  ELSE ClasificarDesde(
         ClasificarFila(ls, area_wgs, capa[k], tiene_nombres, defecto),
         area_wgs, capa, k + 1, tiene_nombres, defecto)

Clasificar(area_wgs, capa, tiene_nombres, defecto) ==
  ClasificarDesde(ListasVacias, area_wgs, capa, 1, tiene_nombres, defecto)

\* ------------------------------------------------------------------ blocks
\* A null identifier or category of a record.
Nulo == "NaN"

SinClasificacion == "Sin clasificación"

\* Rows of the block layer (manzanas): the grid points the polygon covers,
\* the locality code, the stratum and the land-use area identifier.
FilasManzana(geoms, locs, estratos, ids) ==
  [celdas : geoms, num_localidad : locs, estrato : estratos, id_area : ids]

\* Rows of areas[["id_area", "uso_pot_simplificado"]].
FilasArea(ids, usos) == [id_area : ids, uso_pot_simplificado : usos]

SeqsFrom0(S, n) == UNION {[1..k -> S] : k \in 0..n}

\* A row of manzanas_pot: the block's columns and the land-use column.
ConUso(m, uso) ==
  [celdas |-> m.celdas, num_localidad |-> m.num_localidad,
   estrato |-> m.estrato, id_area |-> m.id_area,
   uso_pot_simplificado |-> uso]

\* The block columns of a row of manzanas_pot.
SinUso(mp) ==
  [celdas |-> mp.celdas, num_localidad |-> mp.num_localidad,
   estrato |-> mp.estrato, id_area |-> mp.id_area]

\* The rows of the right table whose key equals the block's key; pandas
\* matches a null key with a null key.
Coincidencias(m, tabla) == SelectSeq(tabla, LAMBDA a : a.id_area = m.id_area)

\* The rows that a left merge emits for one left row: one per matching right
\* row, or a single row with a null category when nothing matches.
MergeFila(m, tabla) ==
  LET c == Coincidencias(m, tabla)
  IN  IF c = <<>> THEN << ConUso(m, Nulo) >>
      ELSE [k \in 1..Len(c) |-> ConUso(m, c[k].uso_pot_simplificado)]

\* manzanas_zona.merge(areas[[...]], on="id_area", how="left")
RECURSIVE MergeLeft(_, _)
MergeLeft(zona, tabla) ==
  IF zona = <<>> THEN <<>>
  ELSE MergeFila(Head(zona), tabla) \o MergeLeft(Tail(zona), tabla)

\* The land-use column is left as the merge wrote it.
FillNaOmitido(filas) == filas

\* manzanas_pot["uso_pot_simplificado"].fillna("Sin clasificación")
FillNa(filas) ==
  [k \in 1..Len(filas) |->
     IF filas[k].uso_pot_simplificado = Nulo
     THEN ConUso(SinUso(filas[k]), SinClasificacion)
     ELSE filas[k]]

\* Step 5, "Unificar con áreas POT": manzanas_pot.
Enriquecer(zona, con_id_area, tabla) ==
  IF con_id_area /\ tabla # <<>>
  THEN FillNa(MergeLeft(zona, tabla))
  ELSE [k \in 1..Len(zona) |-> ConUso(zona[k], SinClasificacion)]

\* ------------------------------------------------------- blocks in the zone
\* manzana.geometry.intersects(area_wgs): the block and the closed disk share
\* a point.
Intersects(m, area) == m.celdas \cap (area.interior \cup area.borde) # {}

\* manzana.geometry.contains(pt)
ManzanaContains(m, pt) == pt \in m.celdas

\* manzanas_zona = manzanas[manzanas.geometry.intersects(area_wgs)]
ManzanasZona(tabla, area) == SelectSeq(tabla, LAMBDA m : Intersects(m, area))

\* localidades[localidades["nombre_localidad"] == localidad_sel]["num_localidad"].values
CodigosDe(locs, sel) ==
  LET f == SelectSeq(locs, LAMBDA l : l.nombre_localidad = sel)
  IN  [k \in 1..Len(f) |-> f[k].num_localidad]

\* manzanas_localidad = manzanas[manzanas["num_localidad"] == cod_localidad]
ManzanasLocalidad(tabla, cod) == SelectSeq(tabla, LAMBDA m : m.num_localidad = cod)

\* ---------------------------------------------------------- locality totals
\* for pt in row["geometry"].geoms: the first block of the locality that
\* contains pt appends it, then break.
RECURSIVE PuntosEnLocalidad(_, _)
PuntosEnLocalidad(geoms, manz_loc) ==
  IF geoms = <<>> THEN <<>>
  ELSE (IF \E k \in 1..Len(manz_loc) : ManzanaContains(manz_loc[k], Head(geoms))
        THEN << Head(geoms) >> ELSE <<>>)
       \o PuntosEnLocalidad(Tail(geoms), manz_loc)

\* estaciones_localidad / colegios_localidad: only records with "geoms" are
\* looked at.
RECURSIVE FeaturesLocalidad(_, _)
FeaturesLocalidad(filas, manz_loc) ==
  IF filas = <<>> THEN <<>>
  ELSE (IF HasGeoms(Head(filas).geometry)
        THEN PuntosEnLocalidad(Head(filas).geometry.geoms, manz_loc)
        ELSE <<>>)
       \o FeaturesLocalidad(Tail(filas), manz_loc)

\* len(set([(pt.x, pt.y) for pt in ...]))
TotalLocalidad(filas, manz_loc) ==
  Cardinality(Range(FeaturesLocalidad(filas, manz_loc)))

\* (pt.x, pt.y) raises AttributeError when a part collected from the
\* locality is not a point.
TotalFalla(filas, manz_loc) ==
  \E k \in 1..Len(filas) :
    /\ HasGeoms(filas[k].geometry)
    /\ ~PartesConXY(filas[k].geometry)
    /\ PuntosEnLocalidad(filas[k].geometry.geoms, manz_loc) # <<>>

\* ------------------------------------------------------------------ metrics
\* A quotient num / den as the code writes it; dividing by zero raises.
Dividir(num, den) == [num |-> num, den |-> den]

\* 3.14159 * (radio / 1000) ** 2, in units of 1e-7 km2 (radio is a multiple
\* of 100 m).
AreaNominal(radio) == 314159 * (radio \div 100) * (radio \div 100)

\* if estaciones_area: densidad = len(estaciones_area) / (3.14159 * ...)
Densidad(puntos, radio) ==
  IF puntos # <<>> THEN << Dividir(Len(puntos), AreaNominal(radio)) >> ELSE <<>>

\* Series.value_counts(): the non-null values and how often each occurs.
ValueCounts(valores, nulo) ==
  LET presentes == Range(valores) \ {nulo}
  IN  [v \in presentes |-> Cardinality({k \in 1..Len(valores) : valores[k] = v})]

\* A stratum that is not classified (a null in the "estrato" column).
EstratoNulo == 0

\* manzanas_zona["estrato"]
ColumnaEstrato(filas) == [k \in 1..Len(filas) |-> filas[k].estrato]

\* manzanas_pot["uso_pot_simplificado"]
ColumnaUso(filas) == [k \in 1..Len(filas) |-> filas[k].uso_pot_simplificado]

\* for estrato, cantidad in dist_estratos.items():
\*   porcentaje = cantidad / len(manzanas_zona) * 100
\* and the same over dist_pot and manzanas_pot.
Porcentajes(dist, total) == [v \in DOMAIN dist |-> Dividir(dist[v], total)]

\* The guard lets a zero total through.
TotalPositivoMalo(total) == total >= 0

\* ... if total_estaciones_loc > 0 else 0
TotalPositivo(total) == total > 0

\* The names that the step-5 script has bound when it reaches the report.
NombresLocales ==
  {"localidades", "manzanas", "transporte", "colegios", "areas",
   "cod_localidad", "punto", "punto_gdf", "punto_proj", "area_proj",
   "area_wgs", "manzanas_zona", "estaciones_zona", "colegios_zona",
   "estaciones_area", "estaciones_coords", "nombres_estaciones",
   "colegios_area", "colegios_coords", "nombres_colegios",
   "dist_estratos", "manzanas_pot", "dist_pot",
   "manzanas_localidad", "estaciones_localidad", "colegios_localidad",
   "total_estaciones_loc", "total_colegios_loc"}

SinError == [tipo |-> "", linea |-> 0]

\* The first statement of the step-5 script that raises, given what the
\* earlier statements computed.
PrimerError(claves_ses, cods, fallas, dens_est, dens_col, pct_estr, pct_pot, tot_est, tot_col) ==
  CASE {"localidad_sel", "radio_analisis", "punto_lat", "punto_lon"}
         \ claves_ses # {}
         -> [tipo |-> "AttributeError", linea |-> 325]
    [] {"localidades", "manzanas", "transporte", "colegios", "areas"}
         \ claves_ses # {}
         -> [tipo |-> "AttributeError", linea |-> 334]
    [] cods = <<>>
         -> [tipo |-> "IndexError", linea |-> 341]
    [] fallas.est
         -> [tipo |-> "AttributeError", linea |-> 408]
    [] \E k \in 1..Len(dens_est) : dens_est[k].den = 0
         -> [tipo |-> "ZeroDivisionError", linea |-> 486]
    [] fallas.col
         -> [tipo |-> "AttributeError", linea |-> 518]
    [] \E k \in 1..Len(dens_col) : dens_col[k].den = 0
         -> [tipo |-> "ZeroDivisionError", linea |-> 596]
    [] \E v \in DOMAIN pct_estr : pct_estr[v].den = 0
         -> [tipo |-> "ZeroDivisionError", linea |-> 696]
    [] \E v \in DOMAIN pct_pot : pct_pot[v].den = 0
         -> [tipo |-> "ZeroDivisionError", linea |-> 818]
    [] fallas.tot_est
         -> [tipo |-> "AttributeError", linea |-> 868]
    [] fallas.tot_col
         -> [tipo |-> "AttributeError", linea |-> 869]
    [] TotalPositivo(tot_est) /\ "estaciones_buffer" \notin NombresLocales
         -> [tipo |-> "NameError", linea |-> 874]
    [] TotalPositivo(tot_col) /\ "colegios_buffer" \notin NombresLocales
         -> [tipo |-> "NameError", linea |-> 875]
    [] "buffer_size" \notin claves_ses
         -> [tipo |-> "AttributeError", linea |-> 878]
    [] "manzanas_buffer" \notin NombresLocales
         -> [tipo |-> "NameError", linea |-> 878]
    [] OTHER -> SinError

MetricasVacias ==
  [densidad_estaciones   |-> <<>>, densidad_colegios   |-> <<>>,
   pct_estratos          |-> <<>>, pct_pot             |-> <<>>,
   porcentaje_estaciones |-> <<>>, porcentaje_colegios |-> <<>>]

TotalesVacios == [estaciones |-> <<>>, colegios |-> <<>>]

\* One execution of the step-5 script (lines 322-935) on the session `ses`:
\* the values of its locals, each left unset when an earlier statement
\* raised, and the exception that ended it.
Corrida(ses) ==
  LET cods     == CodigosDe(ses.localidades, ses.localidad_sel)
      area     == Buffer(ses.punto, ses.radio_analisis)
      zona     == ManzanasZona(ses.manzanas, area)
      cl_est   == Clasificar(area, ses.transporte, ses.tiene_nombres.transporte,
                             SinNombre.transporte)
      dens_est == Densidad(cl_est.area, ses.radio_analisis)
      cl_col   == Clasificar(area, ses.colegios, ses.tiene_nombres.colegios,
                             SinNombre.colegios)
      dens_col == Densidad(cl_col.area, ses.radio_analisis)
      d_estr   == ValueCounts(ColumnaEstrato(zona), EstratoNulo)
      pct_estr == Porcentajes(d_estr, Len(zona))
      pot      == Enriquecer(zona, ses.tiene_id_area, ses.areas)
      d_pot    == ValueCounts(ColumnaUso(pot), Nulo)
      pct_pot  == Porcentajes(d_pot, Len(pot))
      manz_loc == ManzanasLocalidad(ses.manzanas, cods[1])
      tot_est  == TotalLocalidad(ses.transporte, manz_loc)
      tot_col  == TotalLocalidad(ses.colegios, manz_loc)
      sin_falla == [est |-> FALSE, col |-> FALSE,
                    tot_est |-> FALSE, tot_col |-> FALSE]
      fallas   == [est     |-> CapaFalla(area, ses.transporte),
                   col     |-> CapaFalla(area, ses.colegios),
                   tot_est |-> TotalFalla(ses.transporte, manz_loc),
                   tot_col |-> TotalFalla(ses.colegios, manz_loc)]
      temprano == PrimerError(ses.claves, cods, sin_falla, <<>>, <<>>, <<>>,
                              <<>>, 0, 0)
      err      == IF temprano.linea \in {325, 334, 341} THEN temprano
                  ELSE PrimerError(ses.claves, cods, fallas, dens_est, dens_col,
                                   pct_estr, pct_pot, tot_est, tot_col)
      pasa(l)  == err.linea = 0 \/ err.linea > l
  IN  [area_wgs      |-> IF pasa(350) THEN << area >> ELSE <<>>,
       manzanas_zona |-> IF pasa(353) THEN zona ELSE <<>>,
       est           |-> IF pasa(397) THEN cl_est ELSE ListasVacias,
       col           |-> IF pasa(507) THEN cl_col ELSE ListasVacias,
       manzanas_pot  |-> IF pasa(739) THEN pot ELSE <<>>,
       total_loc     |->
         [estaciones |-> IF pasa(870) THEN << tot_est >> ELSE <<>>,
          colegios   |-> IF pasa(871) THEN << tot_col >> ELSE <<>>],
       metricas      |->
         [densidad_estaciones   |-> IF pasa(486) THEN dens_est ELSE <<>>,
          densidad_colegios     |-> IF pasa(596) THEN dens_col ELSE <<>>,
          pct_estratos          |-> IF pasa(696) THEN << pct_estr >> ELSE <<>>,
          pct_pot               |-> IF pasa(818) THEN << pct_pot >> ELSE <<>>,
          porcentaje_estaciones |-> IF pasa(874) THEN << 0 >> ELSE <<>>,
          porcentaje_colegios   |-> IF pasa(875) THEN << 0 >> ELSE <<>>],
       error         |-> err]

\* ------------------------------------------------------------------ report
\* Lines 909-916 with every threshold strict.
ScoreEstricto(n_estaciones, n_colegios, n_manzanas) ==
    (IF n_estaciones > 2 THEN 1 ELSE 0)
  + (IF n_colegios > 2 THEN 1 ELSE 0)
  + (IF n_manzanas > 10 THEN 1 ELSE 0)

\* score = 0; if len(estaciones_buffer) >= 2: score += 1;
\* if len(colegios_buffer) >= 2: score += 1;
\* if len(manzanas_buffer) >= 10: score += 1
Score(n_estaciones, n_colegios, n_manzanas) ==
  LET s0 == 0
      s1 == IF n_estaciones >= 2 THEN s0 + 1 ELSE s0
      s2 == IF n_colegios >= 2 THEN s1 + 1 ELSE s1
      s3 == IF n_manzanas >= 10 THEN s2 + 1 ELSE s2
  IN  s3

\* Score 1 is taken for acceptable.
EtiquetaUnoAceptable(puntaje) ==
  IF puntaje = 3 THEN "SECTOR BIEN DOTADO"
  ELSE IF puntaje >= 1 THEN "SECTOR ACEPTABLE"
  ELSE "SECTOR CON DÉFICIT"

\* if score == 3: st.success(...) elif score == 2: st.warning(...)
\* else: st.error(...)
Etiqueta(puntaje) ==
  IF puntaje = 3 THEN "SECTOR BIEN DOTADO"
  ELSE IF puntaje = 2 THEN "SECTOR ACEPTABLE"
  ELSE "SECTOR CON DÉFICIT"

\* A bag of strata: how many blocks of manzanas_buffer have each stratum.
TotalBolsa(bolsa) ==
  LET RECURSIVE Suma(_)
      Suma(S) == IF S = {} THEN 0
                 ELSE LET e == CHOOSE x \in S : TRUE
                      IN  bolsa[e] + Suma(S \ {e})
  IN  Suma(DOMAIN bolsa)

\* The modes of the non-null strata, the most frequent values.
Modas(bolsa) ==
  {e \in DOMAIN bolsa \ {EstratoNulo} :
     /\ bolsa[e] > 0
     /\ \A f \in DOMAIN bolsa \ {EstratoNulo} : bolsa[f] <= bolsa[e]}

\* The largest stratum present, however frequent.
EstratoMayor(bolsa) ==
  CHOOSE e \in DOMAIN bolsa \ {EstratoNulo} :
    /\ bolsa[e] > 0
    /\ \A f \in DOMAIN bolsa \ {EstratoNulo} : bolsa[f] > 0 => f <= e

\* Series.mode()[0]: mode() is sorted, so the smallest of the most frequent.
PrimeraModa(bolsa) ==
  CHOOSE e \in Modas(bolsa) : \A f \in Modas(bolsa) : e <= f

\* ------------------------------------------------------------------- state
VARIABLES
  \* st.session_state
  claves,          \* the keys present in the session
  localidades,     \* the five reference layers
  areas,
  manzanas,
  transporte,
  colegios,
  localidad_sel,
  radio_analisis,
  punto,           \* (punto_lon, punto_lat)
  informe_data,    \* <<>> while the key is absent
  \* columns of the loaded layers
  tiene_nombres,   \* per feature layer: whether it has a "nombres" column
  tiene_id_area,   \* "id_area" in manzanas.columns
  \* locals of the step-5 script
  area_wgs,        \* the analysis buffer
  manzanas_zona,   \* the in-buffer blocks
  est,             \* estaciones_area, estaciones_coords, nombres_estaciones
  col,             \* colegios_area, colegios_coords, nombres_colegios
  manzanas_pot,    \* the enriched blocks
  total_loc,       \* total_estaciones_loc, total_colegios_loc
  metricas,        \* densities and percentages
  error,           \* the exception that ended the script, if any
  hecho,           \* whether the computation under study has run
  corridas,        \* executions of the step-5 script in this session
  \* position of a classification loop
  capa,            \* "transporte" or "colegios": the layer being iterated
  n_filas,         \* rows iterated so far
  row,             \* the row of the current iteration
  \* what the report section (lines 878-935) reads and writes
  estaciones_buffer, \* len(estaciones_buffer)
  colegios_buffer,   \* len(colegios_buffer)
  manzanas_buffer,   \* the strata of the blocks of manzanas_buffer, as a bag
  buffer_size,       \* st.session_state.buffer_size
  score,
  etiquetas,         \* the labels emitted by st.success / warning / error
  resumen,           \* the figures of the executive summary
  \* the wizard
  step,              \* st.session_state.step
  localidad_clic,    \* st.session_state.localidad_clic
  clic_mapa,         \* last_clicked of the map of step 2
  clic_punto,        \* last_clicked of the map of step 4
  dataframes         \* what cargar_datasets() returns

sesionVars == <<claves, localidades, areas, manzanas, transporte, colegios,
                localidad_sel, radio_analisis, punto, informe_data,
                tiene_nombres, tiene_id_area>>

localVars == <<area_wgs, manzanas_zona, est, col, manzanas_pot, total_loc,
               metricas, error, hecho, corridas>>

bucleVars == <<capa, n_filas, row>>

informeVars == <<estaciones_buffer, colegios_buffer, manzanas_buffer,
                 buffer_size, score, etiquetas, resumen>>

asistenteVars == <<step, localidad_clic, clic_mapa, clic_punto, dataframes>>

vars == <<sesionVars, localVars, bucleVars, informeVars, asistenteVars>>

\* The five layers of the session.
Capas ==
  [localidades |-> localidades, areas |-> areas, manzanas |-> manzanas,
   transporte |-> transporte, colegios |-> colegios]

\* The lists of the layer that the classification loop iterates.
listas == IF capa = "transporte" THEN est ELSE col

\* -------------------------------------------------------- reference layers
Localidades ==
  << [nombre_localidad |-> "Usaquén", num_localidad |-> 1,
      celdas |-> {<<0, 0>>, <<1, 0>>}],
     [nombre_localidad |-> "Chapinero", num_localidad |-> 2,
      celdas |-> {<<0, 2>>}] >>

ClavesCapas == {"localidades", "areas", "manzanas", "transporte", "colegios"}

ClavesParametros == {"localidad_sel", "radio_analisis", "punto_lat", "punto_lon"}

FilaNinguna == [geometry |-> [tipo |-> "None", geoms |-> <<>>], nombres |-> NaN]

\* A session at step 5 with empty layers.
SesionReposo ==
  /\ claves = {"step"} \cup ClavesCapas \cup ClavesParametros
  /\ localidades = Localidades
  /\ areas = <<>>
  /\ manzanas = <<>>
  /\ transporte = <<>>
  /\ colegios = <<>>
  /\ localidad_sel = "Usaquén"
  /\ radio_analisis = RadioDefecto
  /\ punto = <<0, 0>>
  /\ informe_data = <<>>
  /\ tiene_nombres = [transporte |-> TRUE, colegios |-> TRUE]
  /\ tiene_id_area = TRUE

\* The step-5 script before its first statement.
LocalesReposo ==
  /\ area_wgs = Buffer(<<0, 0>>, RadioDefecto)
  /\ manzanas_zona = <<>>
  /\ est = ListasVacias
  /\ col = ListasVacias
  /\ manzanas_pot = <<>>
  /\ total_loc = TotalesVacios
  /\ metricas = MetricasVacias
  /\ error = SinError
  /\ hecho = FALSE
  /\ corridas = 0

BucleReposo ==
  /\ capa = "transporte"
  /\ n_filas = 0
  /\ row = FilaNinguna

\* None
Ninguno == "None"

\* The wizard at step 5, the layers of the session being the loaded ones.
AsistenteReposo ==
  /\ step = 5
  /\ localidad_clic = localidad_sel
  /\ clic_mapa = <<>>
  /\ clic_punto = punto
  /\ dataframes = Capas

EstratosInforme == {3, 4, EstratoNulo}

\* The report section before it runs, with nothing to report on.
InformeReposo ==
  /\ estaciones_buffer = 0
  /\ colegios_buffer = 0
  /\ manzanas_buffer = [e \in EstratosInforme |-> 0]
  /\ buffer_size = RadioDefecto
  /\ score = 0
  /\ etiquetas = <<>>
  /\ resumen = <<>>

\* ------------------------------------------------- classification loop spec
ClasifInit ==
  /\ InformeReposo
  /\ claves = {"step"} \cup ClavesCapas \cup ClavesParametros
  /\ localidades = Localidades
  /\ areas = <<>>
  /\ manzanas = <<>>
  /\ transporte = <<>>
  /\ colegios = <<>>
  /\ localidad_sel = "Usaquén"
  /\ radio_analisis = RadioDefecto
  /\ punto = <<0, 0>>
  /\ informe_data = <<>>
  /\ tiene_id_area = TRUE
  /\ manzanas_zona = <<>>
  /\ manzanas_pot = <<>>
  /\ total_loc = TotalesVacios
  /\ metricas = MetricasVacias
  /\ error = SinError
  /\ hecho = FALSE
  /\ corridas = 0
  \* the loop starts on one of the two layers, with some buffer, on a layer
  \* with or without a name column
  /\ capa \in {"transporte", "colegios"}
  /\ area_wgs \in Buffers
  /\ \E b \in BOOLEAN :
       tiene_nombres = [transporte |-> b \/ capa # "transporte",
                        colegios   |-> b \/ capa # "colegios"]
  /\ n_filas = 0
  /\ row = FilaNinguna
  /\ est = ListasVacias
  /\ col = ListasVacias
  /\ AsistenteReposo

\* for _, row in transporte.iterrows() / colegios.iterrows(): one iteration.
Iterar ==
  /\ n_filas < MaxRegistros
  /\ error = SinError
  /\ \E r \in Filas(tiene_nombres[capa]) :
       /\ row' = r
       /\ LET ls == ClasificarFila(listas, area_wgs, r, tiene_nombres[capa],
                                   SinNombre[capa])
          IN  IF capa = "transporte"
              THEN est' = ls /\ col' = col
              ELSE col' = ls /\ est' = est
       /\ error' = IF FilaFalla(area_wgs, r)
                   THEN [tipo  |-> "AttributeError",
                         linea |-> IF capa = "transporte" THEN 408 ELSE 518]
                   ELSE SinError
  /\ n_filas' = n_filas + 1
  /\ UNCHANGED <<capa, area_wgs, tiene_nombres, hecho, corridas>>
  /\ UNCHANGED <<claves, localidades, areas, manzanas, transporte, colegios,
                 localidad_sel, radio_analisis, punto, informe_data,
                 tiene_id_area>>
  /\ UNCHANGED <<manzanas_zona, manzanas_pot, total_loc, metricas>>
  /\ UNCHANGED <<informeVars, asistenteVars>>

ClasifNext == Iterar

SpecClasif == ClasifInit /\ [][ClasifNext]_vars

\* ------------------------------------------------------------ C5: no repeats
\* C5: in the classified subset of stations and of schools no coordinate
\* pair occurs more than once, whatever rows the layer holds: the list of
\* points and the list of coordinates are the same repeat-free list, every
\* in-buffer coordinate of the row just iterated is in it, and no later
\* iteration removes a coordinate, so every in-buffer coordinate of the layer
\* is there at least once and at most once.
SinRepetidos(s) == \A i, j \in 1..Len(s) : i # j => s[i] # s[j]

PuntosDeFila(r) ==
  IF r.geometry.tipo \in {"MultiPoint", "Point"}
  THEN Range(r.geometry.geoms) ELSE {}

C5_Deduplicacion ==
  /\ [](/\ SinRepetidos(listas.coords)
        /\ listas.area = listas.coords
        /\ \A p \in PuntosDeFila(row) :
             p \in area_wgs.interior => p \in Range(listas.coords)
        /\ Range(listas.coords) \subseteq area_wgs.interior)
  /\ [][Range(listas.coords) \subseteq Range(listas'.coords)]_vars

\* A multi-point record that holds the same in-buffer coordinate twice has
\* been iterated after another record, and the subset holds one point.
C5_Witness ==
  /\ n_filas >= 2
  /\ row.geometry.tipo = "MultiPoint"
  /\ Len(row.geometry.geoms) = 2
  /\ row.geometry.geoms[1] = row.geometry.geoms[2]
  /\ row.geometry.geoms[1] \in area_wgs.interior
  /\ Len(listas.area) = 1

\* ------------------------------------------------------------- C6: names
\* The tokens of each value of the name field, written out by hand: the
\* pieces between semicolons without their surrounding blanks; a null value
\* is the text "nan", one token.
TokensDe(campo) ==
  CASE campo = <<"A">>                                -> << <<"A">> >>
    [] campo = <<"A", ";", "B">>                      -> << <<"A">>, <<"B">> >>
    [] campo = <<" ", "A", ";", " ", "B", " ">>       -> << <<"A">>, <<"B">> >>
    [] campo = <<>>                                   -> << <<>> >>
    [] campo = NaN                                    -> << <<"n", "a", "n">> >>

\* 0-based position of the first sub-point of the record at coordinate c.
PrimerIndice(geoms, c) ==
  (CHOOSE i \in 1..Len(geoms) :
     geoms[i] = c /\ \A j \in 1..(i - 1) : geoms[j] # c) - 1

MaxManzanas == 2
\* Rows of the land-use table.
MaxAreas == 2

IdsArea == {"a1", "a2"}

Usos == {"Residencial", "Comercial"}

ManzanasEnriq(con_id_area) ==
  SeqsFrom0(FilasManzana({{<<0, 0>>}}, {1}, {3, 4},
                         IF con_id_area THEN IdsArea \cup {Nulo} ELSE {Nulo}),
            MaxManzanas)

AreasEnriq == SeqsFrom0(FilasArea(IdsArea \cup {Nulo}, Usos \cup {Nulo}), MaxAreas)

EnriqInit ==
  /\ BucleReposo
  /\ InformeReposo
  /\ claves = {"step"} \cup ClavesCapas \cup ClavesParametros
  /\ localidades = Localidades
  /\ manzanas = <<>>
  /\ transporte = <<>>
  /\ colegios = <<>>
  /\ localidad_sel = "Usaquén"
  /\ radio_analisis = RadioDefecto
  /\ punto = <<0, 0>>
  /\ informe_data = <<>>
  /\ tiene_nombres = [transporte |-> TRUE, colegios |-> TRUE]
  /\ area_wgs = Buffer(<<0, 0>>, RadioDefecto)
  /\ est = ListasVacias
  /\ col = ListasVacias
  /\ total_loc = TotalesVacios
  /\ metricas = MetricasVacias
  /\ error = SinError
  /\ tiene_id_area \in BOOLEAN
  /\ manzanas_zona \in ManzanasEnriq(tiene_id_area)
  /\ areas \in AreasEnriq
  /\ manzanas_pot = <<>>
  /\ hecho = FALSE
  /\ corridas = 0
  /\ AsistenteReposo

\* Lines 729-739 on the blocks and the table at hand.
EnriquecerPaso ==
  /\ ~hecho
  /\ manzanas_pot' = Enriquecer(manzanas_zona, tiene_id_area, areas)
  /\ hecho' = TRUE
  /\ UNCHANGED <<sesionVars, bucleVars, informeVars, asistenteVars>>
  /\ UNCHANGED <<area_wgs, manzanas_zona, est, col, total_loc, metricas, error,
                 corridas>>

EnriqNext == EnriquecerPaso

SpecEnriq == EnriqInit /\ [][EnriqNext]_vars

\* -------------------------------------------------- C7: enrichment is total
\* C7: the enriched table has exactly as many rows as the block table and
\* holds each input block exactly once, whatever the land-use table holds.
C7_UnoAUno ==
  hecho =>
    /\ Len(manzanas_pot) = Len(manzanas_zona)
    /\ \A k \in 1..Len(manzanas_zona) : SinUso(manzanas_pot[k]) = manzanas_zona[k]

\* ------------------------------------------------ C8: land-use category
SinRegistro(mp) == \A k \in 1..Len(areas) : areas[k].id_area # mp.id_area

MaxFilasSesion == 1

PuntoDe(p) == [tipo |-> "Point", geoms |-> <<p>>]

MultiPuntoDe(g) == [tipo |-> "MultiPoint", geoms |-> g]

TransporteSesion ==
  SeqsFrom0([geometry : {PuntoDe(<<0, 0>>),
                         MultiPuntoDe(<< <<0, 0>>, <<1, 0>> >>),
                         MultiPuntoDe(<< <<0, 2>> >>)},
             nombres  : {<<"A", ";", "B">>}],
            MaxFilasSesion)

ColegiosSesion ==
  SeqsFrom0([geometry : {PuntoDe(<<0, 0>>), MultiPuntoDe(<< <<0, 2>> >>)},
             nombres  : {<<"A">>}],
            MaxFilasSesion)

ManzanasSesion ==
  SeqsFrom0(FilasManzana({{<<0, 0>>}, {<<0, 0>>, <<1, 0>>}}, {1, 2}, {3}, {"a1"}),
            MaxFilasSesion)

\* The land-use table: empty, or one area that the blocks refer to.
AreasSesion == {<<>>} \cup {<<a>> : a \in FilasArea({"a1"}, {"Residencial"})}

\* The session as the wizard leaves it on entering step 5: the five layers,
\* a selected locality, a radius of the slider and a clicked point.
CorridaInit ==
  /\ BucleReposo
  /\ InformeReposo
  /\ LocalesReposo
  /\ claves = {"step"} \cup ClavesCapas \cup ClavesParametros
  /\ localidades = Localidades
  /\ areas \in AreasSesion
  /\ manzanas \in ManzanasSesion
  /\ transporte \in TransporteSesion
  /\ colegios \in ColegiosSesion
  /\ localidad_sel \in {Localidades[k].nombre_localidad : k \in 1..Len(Localidades)}
  /\ radio_analisis \in Radios
  /\ punto \in Puntos
  /\ informe_data = <<>>
  /\ tiene_nombres = [transporte |-> TRUE, colegios |-> TRUE]
  /\ tiene_id_area = TRUE
  /\ AsistenteReposo

Sesion ==
  [claves |-> claves, localidades |-> localidades, areas |-> areas,
   manzanas |-> manzanas, transporte |-> transporte, colegios |-> colegios,
   localidad_sel |-> localidad_sel, radio_analisis |-> radio_analisis,
   punto |-> punto, tiene_nombres |-> tiene_nombres,
   tiene_id_area |-> tiene_id_area]

\* The script runs at step 5, from its header to the statement that stores
\* informe_data or to the statement that raises.
CorrerPaso5 ==
  /\ LET c == Corrida(Sesion)
     IN  /\ area_wgs' = IF c.area_wgs # <<>> THEN c.area_wgs[1] ELSE area_wgs
         /\ manzanas_zona' = c.manzanas_zona
         /\ est' = c.est
         /\ col' = c.col
         /\ manzanas_pot' = c.manzanas_pot
         /\ total_loc' = c.total_loc
         /\ metricas' = c.metricas
         /\ error' = c.error
  /\ hecho' = TRUE
  /\ corridas' = corridas + 1

Paso5 ==
  /\ ~hecho
  /\ CorrerPaso5
  \* line 926 is not reached: no statement of the script stores informe_data
  \* before the report raises
  /\ UNCHANGED <<sesionVars, bucleVars, informeVars, asistenteVars>>

\* Executions of the script on one session.
MaxCorridas == 2

\* Streamlit runs the script again on the same session (its "Rerun"
\* command): step is 5, so the script of step 5 runs from its first
\* statement, with new locals.
Reejecutar ==
  /\ hecho
  /\ corridas < MaxCorridas
  /\ CorrerPaso5
  /\ UNCHANGED <<sesionVars, bucleVars, informeVars, asistenteVars>>

CorridaNext == Paso5

SpecCorrida == CorridaInit /\ [][CorridaNext]_vars

\* --------------------------------------------------- C1: the run completes
\* C1: every analysis run that starts at step 5 with a selected locality, a
\* radius and a point ends without an exception and with informe_data stored
\* in the session.
C1_CorridaCompleta ==
  hecho => /\ error = SinError
           /\ informe_data # <<>>

\* -------------------------------------------------- C9: locality totals
\* Distinct coordinates of the points of a layer, single points and sub-points
\* alike, that some block of the selected locality contains.
CoordsEnLocalidad(filas) ==
  LET cod == (CHOOSE k \in 1..Len(localidades) :
                localidades[k].nombre_localidad = localidad_sel)
      num == localidades[cod].num_localidad
  IN  {p \in UNION {PuntosDeFila(filas[k]) : k \in 1..Len(filas)} :
         \E j \in 1..Len(manzanas) :
           /\ manzanas[j].num_localidad = num
           /\ p \in manzanas[j].celdas}

\* C9: the locality-wide total of stations and of schools is the number of
\* distinct coordinates of the layer's points, single or sub-point, contained
\* in at least one block of the selected locality.
C9_TotalesLocalidad ==
  /\ total_loc.estaciones # <<>> =>
       total_loc.estaciones[1] = Cardinality(CoordsEnLocalidad(transporte))
  /\ total_loc.colegios # <<>> =>
       total_loc.colegios[1] = Cardinality(CoordsEnLocalidad(colegios))

\* ------------------------------------------------ C10: no division by zero
Valores(f) == {f[v] : v \in DOMAIN f}

Cocientes ==
     Range(metricas.densidad_estaciones) \cup Range(metricas.densidad_colegios)
  \cup UNION {Valores(metricas.pct_estratos[k]) : k \in 1..Len(metricas.pct_estratos)}
  \cup UNION {Valores(metricas.pct_pot[k]) : k \in 1..Len(metricas.pct_pot)}

Alcanza(l) == hecho /\ (error.linea = 0 \/ error.linea >= l)

\* C10: no run ends in a division by zero and no quotient it computes has a
\* zero divisor; an empty classified subset has no density, an empty set of
\* in-buffer blocks has no per-stratum or per-land-use percentage, and a
\* locality-wide total of zero gives a percent-of-locality of 0.
C10_SinDivisionPorCero ==
  hecho =>
    /\ error.tipo # "ZeroDivisionError"
    /\ \A q \in Cocientes : q.den # 0
    /\ est.area = <<>> => metricas.densidad_estaciones = <<>>
    /\ col.area = <<>> => metricas.densidad_colegios = <<>>
    /\ manzanas_zona = <<>> =>
         /\ \A k \in 1..Len(metricas.pct_estratos) :
              DOMAIN metricas.pct_estratos[k] = {}
         /\ \A k \in 1..Len(metricas.pct_pot) :
              DOMAIN metricas.pct_pot[k] = {}
    /\ (Alcanza(874) /\ total_loc.estaciones = << 0 >>) =>
         metricas.porcentaje_estaciones = << 0 >>
    /\ (Alcanza(875) /\ total_loc.colegios = << 0 >>) =>
         metricas.porcentaje_colegios = << 0 >>

\* A run with no station and no block in the buffer and no station in the
\* locality: no density, no percentage by stratum, 0 % of the locality.
C10_Witness ==
  /\ hecho
  /\ est.area = <<>>
  /\ col.area # <<>>
  /\ metricas.densidad_colegios # <<>>
  /\ manzanas_zona = <<>>
  /\ metricas.pct_estratos = << <<>> >>
  /\ total_loc.estaciones = << 0 >>
  /\ metricas.porcentaje_estaciones = << 0 >>
  /\ transporte # <<>>


\* -------------------------------------------------------------- report spec
\* Stations and schools in the buffer.
MaxConteo == 3
\* Blocks in the buffer.
MaxManzanasInforme == 12

\* The report section is given the collections it reads: estaciones_buffer,
\* colegios_buffer, manzanas_buffer and the session key buffer_size.
InformeInit ==
  /\ BucleReposo
  /\ area_wgs = Buffer(<<0, 0>>, RadioDefecto)
  /\ manzanas_zona = <<>>
  /\ est = ListasVacias
  /\ col = ListasVacias
  /\ manzanas_pot = <<>>
  /\ \E t_est, t_col \in {0, MaxConteo} :
       total_loc = [estaciones |-> << t_est >>, colegios |-> << t_col >>]
  /\ metricas = MetricasVacias
  /\ error = SinError
  /\ hecho = FALSE
  /\ corridas = 0
  /\ claves = {"step", "buffer_size", "localidad_clic"} \cup ClavesCapas
                \cup ClavesParametros
  /\ localidades = Localidades
  /\ areas = <<>>
  /\ manzanas = <<>>
  /\ transporte = <<>>
  /\ colegios = <<>>
  /\ localidad_sel = "Usaquén"
  /\ radio_analisis = RadioDefecto
  /\ punto = <<0, 0>>
  /\ informe_data = <<>>
  /\ tiene_nombres = [transporte |-> TRUE, colegios |-> TRUE]
  /\ tiene_id_area = TRUE
  /\ estaciones_buffer \in 0..MaxConteo
  /\ colegios_buffer \in 0..MaxConteo
  /\ manzanas_buffer \in {b \in [EstratosInforme -> 0..MaxManzanasInforme] :
                            TotalBolsa(b) <= MaxManzanasInforme}
  /\ buffer_size \in Radios
  /\ score = 0
  /\ etiquetas = <<>>
  /\ resumen = <<>>
  /\ AsistenteReposo

\* Lines 878-935: the executive summary, the score, its label and
\* informe_data.  mode()[0] raises on blocks that all lack a stratum.
Informar ==
  /\ ~hecho
  /\ hecho' = TRUE
  /\ LET n_manzanas == TotalBolsa(manzanas_buffer)
         vacio      == n_manzanas = 0
         sin_moda   == ~vacio /\ Modas(manzanas_buffer) = {}
         puntaje    == Score(estaciones_buffer, colegios_buffer, n_manzanas)
     IN  IF sin_moda
         THEN /\ error' = [tipo |-> "KeyError", linea |-> 878]
              /\ UNCHANGED <<score, etiquetas, resumen, informe_data, claves>>
         ELSE /\ error' = SinError
              /\ claves' = claves \cup {"informe_data"}
              /\ resumen' =
                   << [manzanas   |-> n_manzanas,
                       estrato_predominante |->
                         IF vacio THEN << "N/A" >>
                         ELSE << PrimeraModa(manzanas_buffer) >>,
                       estaciones |-> estaciones_buffer,
                       colegios   |-> colegios_buffer] >>
              /\ score' = puntaje
              /\ etiquetas' = Append(etiquetas, Etiqueta(puntaje))
              /\ informe_data' =
                   << [localidad  |-> localidad_sel,
                       buffer_size |-> buffer_size,
                       manzanas   |-> n_manzanas,
                       estaciones |-> estaciones_buffer,
                       colegios   |-> colegios_buffer,
                       total_estaciones_loc |-> total_loc.estaciones[1],
                       total_colegios_loc   |-> total_loc.colegios[1],
                       score      |-> puntaje] >>
  /\ UNCHANGED <<localidades, areas, manzanas, transporte, colegios,
                 localidad_sel, radio_analisis, punto, tiene_nombres,
                 tiene_id_area>>
  /\ UNCHANGED <<area_wgs, manzanas_zona, est, col, manzanas_pot, total_loc,
                 metricas, corridas>>
  /\ UNCHANGED <<bucleVars, asistenteVars, estaciones_buffer, colegios_buffer,
                 manzanas_buffer, buffer_size>>

\* A report that has been rendered to its end.
Informado == step = 5 /\ hecho /\ error = SinError

\* ------------------------------------------------------- C2: the score
Cumplidas ==
  {c \in {"estaciones", "colegios", "manzanas"} :
     \/ c = "estaciones" /\ estaciones_buffer >= 2
     \/ c = "colegios" /\ colegios_buffer >= 2
     \/ c = "manzanas" /\ TotalBolsa(manzanas_buffer) >= 10}

Escenario ==
  /\ Informado
  /\ estaciones_buffer = 3
  /\ colegios_buffer = 1
  /\ manzanas_buffer = [e \in EstratosInforme |->
                          IF e = 3 THEN 7 ELSE IF e = 4 THEN 5 ELSE 0]

PuntosMapa == Puntos \cup {<<2, 2>>}

\* What cargar_datasets() can return: the localities with the other layers
\* empty, or with one record each.
DatosCargados ==
  { [localidades |-> Localidades, areas |-> <<>>, manzanas |-> <<>>,
     transporte |-> <<>>, colegios |-> <<>>],
    [localidades |-> Localidades,
     areas |-> << [id_area |-> "a1", uso_pot_simplificado |-> "Residencial"] >>,
     manzanas |-> << [celdas |-> {<<0, 0>>}, num_localidad |-> 1,
                      estrato |-> 3, id_area |-> "a1"] >>,
     transporte |-> << [geometry |-> MultiPuntoDe(<< <<0, 0>>, <<1, 0>> >>),
                        nombres |-> <<"A", ";", "B">>] >>,
     colegios |-> << [geometry |-> PuntoDe(<<0, 0>>), nombres |-> <<"A">>] >>] }

\* for _, row in localidades.iterrows(): if row["geometry"].contains(punto):
\* localidad_clic = row["nombre_localidad"]; break / else: localidad_clic = None
LocalidadEn(locs, p) ==
  LET f == SelectSeq(locs, LAMBDA l : p \in l.celdas)
  IN  IF f = <<>> THEN Ninguno ELSE f[1].nombre_localidad

\* The confirm button shown whenever the key is in the session.
ConfirmaCualquiera(cl, lc) == "localidad_clic" \in cl

\* if "localidad_clic" in st.session_state and st.session_state.localidad_clic
PuedeConfirmarLocalidad(cl, lc) == "localidad_clic" \in cl /\ lc # Ninguno

\* if clicked and "lat" in clicked and "lng" in clicked
HayClic(clicked) == clicked # <<>>

\* The confirm button shown without a click.
ConfirmaSinPunto(clicked) == TRUE

\* The confirm button of line 302 is inside the branch of line 285.
PuedeConfirmarPunto(clicked) == HayClic(clicked)

\* The exception that the script of a step raises before its widgets, if any.
ErrorRender(paso, cl, locs, sel) ==
  CASE paso = 2 /\ "localidades" \notin cl
         -> [tipo |-> "AttributeError", linea |-> 114]
    [] paso = 3 /\ "localidad_sel" \notin cl
         -> [tipo |-> "AttributeError", linea |-> 180]
    [] paso = 4 /\ {"localidad_sel", "radio_analisis"} \ cl # {}
         -> [tipo |-> "AttributeError", linea |-> 218]
    [] paso = 4 /\ "localidades" \notin cl
         -> [tipo |-> "AttributeError", linea |-> 225]
    [] paso = 4 /\ CodigosDe(locs, sel) = <<>>
         -> [tipo |-> "IndexError", linea |-> 228]
    [] OTHER -> SinError

\* A session without one of the layers.
GuardarSinAreas(cl) == cl \cup (ClavesCapas \ {"areas"})

\* for nombre, df in dataframes.items(): st.session_state[nombre] = df
Guardar(cl) == cl \cup ClavesCapas

Init ==
  /\ BucleReposo
  /\ InformeReposo
  /\ LocalesReposo
  /\ step = 1
  /\ claves = {"step"}
  /\ dataframes \in DatosCargados
  /\ localidades = <<>>
  /\ areas = <<>>
  /\ manzanas = <<>>
  /\ transporte = <<>>
  /\ colegios = <<>>
  /\ localidad_sel = Ninguno
  /\ radio_analisis = 0
  /\ punto = <<>>
  /\ informe_data = <<>>
  /\ tiene_nombres = [transporte |-> TRUE, colegios |-> TRUE]
  /\ tiene_id_area = TRUE
  /\ localidad_clic = Ninguno
  /\ clic_mapa = <<>>
  /\ clic_punto = <<>>

\* What no navigation touches: script locals of step 5, loops, the report.
SinCorrida ==
  UNCHANGED <<area_wgs, manzanas_zona, est, col, manzanas_pot, total_loc,
              metricas, hecho, corridas, bucleVars, informeVars, informe_data,
              tiene_nombres, tiene_id_area, dataframes>>

CapasIguales == UNCHANGED <<localidades, areas, manzanas, transporte, colegios>>

\* Step 1, "Empezar diagnóstico" (lines 87-91), then the render of step 2.
Empezar ==
  /\ step = 1
  /\ error = SinError
  /\ claves' = Guardar(claves)
  /\ localidades' = IF "localidades" \in claves' THEN dataframes.localidades
                    ELSE localidades
  /\ areas' = IF "areas" \in claves' THEN dataframes.areas ELSE areas
  /\ manzanas' = IF "manzanas" \in claves' THEN dataframes.manzanas ELSE manzanas
  /\ transporte' = IF "transporte" \in claves' THEN dataframes.transporte
                   ELSE transporte
  /\ colegios' = IF "colegios" \in claves' THEN dataframes.colegios ELSE colegios
  /\ step' = 2
  /\ clic_mapa' = <<>>
  /\ error' = ErrorRender(2, claves', localidades', localidad_sel)
  /\ UNCHANGED <<localidad_sel, radio_analisis, punto, localidad_clic, clic_punto>>
  /\ SinCorrida

\* Step 2, a click on the map (lines 149-157).
ClicLocalidad ==
  /\ step = 2
  /\ error = SinError
  /\ \E p \in PuntosMapa :
       /\ clic_mapa' = p
       /\ localidad_clic' = LocalidadEn(localidades, p)
  /\ claves' = claves \cup {"localidad_clic"}
  /\ UNCHANGED <<step, error, localidad_sel, radio_analisis, punto, clic_punto>>
  /\ CapasIguales
  /\ SinCorrida

\* Step 2, "Confirmar y Continuar" (lines 160-165), then the render of step 3
\* up to the slider, which stores its initial value (lines 187-195).
ConfirmarLocalidad ==
  /\ step = 2
  /\ error = SinError
  /\ PuedeConfirmarLocalidad(claves, localidad_clic)
  /\ localidad_sel' = localidad_clic
  /\ step' = 3
  /\ clic_mapa' = <<>>
  /\ error' = ErrorRender(3, claves \cup {"localidad_sel"}, localidades,
                          localidad_sel')
  /\ claves' = claves \cup {"localidad_sel", "radio_analisis"}
  /\ radio_analisis' = RadioDefecto
  /\ UNCHANGED <<punto, localidad_clic, clic_punto>>
  /\ CapasIguales
  /\ SinCorrida

\* Step 2, "Volver al Inicio" (lines 168-170).
VolverInicio ==
  /\ step = 2
  /\ error = SinError
  /\ step' = 1
  /\ clic_mapa' = <<>>
  /\ UNCHANGED <<claves, error, localidad_sel, radio_analisis, punto,
                 localidad_clic, clic_punto>>
  /\ CapasIguales
  /\ SinCorrida

\* Step 3, the slider is moved (lines 187-195).
MoverSlider ==
  /\ step = 3
  /\ error = SinError
  /\ \E r \in Radios : radio_analisis' = r
  /\ UNCHANGED <<claves, step, error, localidad_sel, punto, localidad_clic,
                 clic_mapa, clic_punto>>
  /\ CapasIguales
  /\ SinCorrida

\* Step 3, "Volver a selección de localidad" (lines 202-204).
VolverLocalidad ==
  /\ step = 3
  /\ error = SinError
  /\ step' = 2
  /\ error' = ErrorRender(2, claves, localidades, localidad_sel)
  /\ UNCHANGED <<claves, localidad_sel, radio_analisis, punto, localidad_clic,
                 clic_mapa, clic_punto>>
  /\ CapasIguales
  /\ SinCorrida

\* The render of step 4 (lines 217-287): the locality lookup, then the map,
\* whose last click, if it has one, is stored as the point.
RenderPaso4(clicked) ==
  /\ error' = ErrorRender(4, claves, localidades, localidad_sel)
  /\ IF error' = SinError /\ HayClic(clicked)
     THEN /\ punto' = clicked
          /\ claves' = claves \cup {"punto_lat", "punto_lon"}
     ELSE UNCHANGED <<punto, claves>>

\* Step 3, "Continuar" (lines 206-208), then the render of step 4; its map
\* component may have kept the click of an earlier visit.
Continuar ==
  /\ step = 3
  /\ error = SinError
  /\ step' = 4
  /\ \E clicked \in {<<>>, clic_punto} :
       /\ clic_punto' = clicked
       /\ RenderPaso4(clicked)
  /\ UNCHANGED <<localidad_sel, radio_analisis, localidad_clic, clic_mapa>>
  /\ CapasIguales
  /\ SinCorrida

\* Step 4, a click on the map (lines 284-287).
ClicPunto ==
  /\ step = 4
  /\ error = SinError
  /\ \E p \in Puntos :
       /\ clic_punto' = p
       /\ RenderPaso4(p)
  /\ UNCHANGED <<step, localidad_sel, radio_analisis, localidad_clic, clic_mapa>>
  /\ CapasIguales
  /\ SinCorrida

\* Step 4, "Confirmar y generar visualizaciones" (lines 302-304), then the
\* script of step 5.
ConfirmarPunto ==
  /\ step = 4
  /\ error = SinError
  /\ PuedeConfirmarPunto(clic_punto)
  /\ step' = 5
  /\ CorrerPaso5
  /\ UNCHANGED <<sesionVars, bucleVars, informeVars, localidad_clic, clic_mapa,
                 clic_punto, dataframes>>

\* Step 4, "Volver al paso anterior" (lines 311-313), then the render of
\* step 3, whose slider is new and stores its initial value.
VolverRadio ==
  /\ step = 4
  /\ error = SinError
  /\ step' = 3
  /\ error' = ErrorRender(3, claves, localidades, localidad_sel)
  /\ radio_analisis' = RadioDefecto
  /\ UNCHANGED <<claves, localidad_sel, punto, localidad_clic, clic_mapa,
                 clic_punto>>
  /\ CapasIguales
  /\ SinCorrida

\* Step 4, "Reiniciar análisis" (lines 315-317).
Reiniciar ==
  /\ step = 4
  /\ error = SinError
  /\ step' = 1
  /\ UNCHANGED <<claves, error, localidad_sel, radio_analisis, punto,
                 localidad_clic, clic_mapa, clic_punto>>
  /\ CapasIguales
  /\ SinCorrida

Next ==
  \/ Empezar
  \/ ClicLocalidad
  \/ ConfirmarLocalidad
  \/ VolverInicio
  \/ MoverSlider
  \/ VolverLocalidad
  \/ Continuar
  \/ ClicPunto
  \/ ConfirmarPunto
  \/ VolverRadio
  \/ Reiniciar

Spec == Init /\ [][Next]_vars

\* ------------------------------------------- C11: parameters at step 5
\* C11: whenever the wizard is at step 5, the session holds a radius that is
\* one of 300, 600, ..., 2100, a point (latitude and longitude) and a
\* selected locality.
C11_ParametrosEnPaso5 ==
  step = 5 =>
    /\ ClavesParametros \subseteq claves
    /\ radio_analisis \in {300, 600, 900, 1200, 1500, 1800, 2100}
    /\ radio_analisis > 0
    /\ punto \in Puntos
    /\ localidad_sel \in {"Usaquén", "Chapinero"}
    /\ error.linea \notin {325, 334}

\* Step 5 reached with the largest radius, in the second locality.
C11_Witness ==
  /\ step = 5
  /\ ClavesParametros \subseteq claves
  /\ radio_analisis = 2100
  /\ punto = <<0, 2>>
  /\ localidad_sel = "Chapinero"


\* ------------------------------- C12: records that are not points
\* C12: an iteration on a record whose geometry is neither a point nor a
\* multi-point (no geometry, a polygon, a multi-part geometry whose parts are
\* not points) adds nothing to the classified subset and raises nothing.
C12_OtrasGeometrias ==
  [][(n_filas' = n_filas + 1 /\ row'.geometry.tipo \notin {"Point", "MultiPoint"})
       => (listas' = listas /\ error' = SinError)]_vars


\* ------------------------------------------- C13: predominant stratum
\* The strata whose block count is strictly higher than every other's.
EstratoMasFrecuente ==
  {e \in EstratosInforme \ {EstratoNulo} :
     /\ manzanas_buffer[e] > 0
     /\ \A f \in EstratosInforme \ {EstratoNulo, e} :
          manzanas_buffer[f] < manzanas_buffer[e]}

InformeOlvidado ==
  /\ estaciones_buffer' = 0
  /\ colegios_buffer' = 0
  /\ manzanas_buffer' = [e \in EstratosInforme |-> 0]
  /\ score' = 0
  /\ etiquetas' = <<>>
  /\ resumen' = <<>>

\* keys_to_keep with the selected locality kept as well.
ConservadasConLocalidad(cl) == cl \cap (ClavesCapas \cup {"localidad_sel"})

\* keys_to_keep = ["localidades", "areas", "manzanas", "transporte",
\* "colegios"]; every other key of the session is deleted.
Conservadas(cl) == cl \cap ClavesCapas

\* Step 5, "Volver a Selección de Punto" (lines 942-944), then the render of
\* step 4.
VolverPunto ==
  /\ step = 5
  /\ hecho
  /\ error = SinError
  /\ step' = 4
  /\ RenderPaso4(clic_punto)
  /\ InformeOlvidado
  /\ UNCHANGED <<localidades, areas, manzanas, transporte, colegios,
                 localidad_sel, radio_analisis, informe_data, tiene_nombres,
                 tiene_id_area, buffer_size>>
  /\ UNCHANGED <<area_wgs, manzanas_zona, est, col, manzanas_pot, total_loc,
                 metricas, hecho, corridas, bucleVars>>
  /\ UNCHANGED <<localidad_clic, clic_mapa, clic_punto, dataframes>>

\* Step 5, "Nuevo Análisis" (lines 971-978), then the render of step 2.
NuevoAnalisis ==
  /\ step = 5
  /\ hecho
  /\ error = SinError
  /\ LET quedan == Conservadas(claves)
     IN  /\ claves' = quedan \cup {"step"}
         /\ localidades' = IF "localidades" \in quedan THEN localidades ELSE <<>>
         /\ areas' = IF "areas" \in quedan THEN areas ELSE <<>>
         /\ manzanas' = IF "manzanas" \in quedan THEN manzanas ELSE <<>>
         /\ transporte' = IF "transporte" \in quedan THEN transporte ELSE <<>>
         /\ colegios' = IF "colegios" \in quedan THEN colegios ELSE <<>>
         /\ localidad_sel' = IF "localidad_sel" \in quedan THEN localidad_sel
                             ELSE Ninguno
         /\ radio_analisis' = IF "radio_analisis" \in quedan THEN radio_analisis
                              ELSE 0
         /\ punto' = IF {"punto_lat", "punto_lon"} \subseteq quedan THEN punto
                     ELSE <<>>
         /\ informe_data' = IF "informe_data" \in quedan THEN informe_data
                            ELSE <<>>
         /\ buffer_size' = IF "buffer_size" \in quedan THEN buffer_size ELSE 0
         /\ localidad_clic' = IF "localidad_clic" \in quedan THEN localidad_clic
                              ELSE Ninguno
  /\ step' = 2
  /\ clic_mapa' = <<>>
  /\ clic_punto' = <<>>
  /\ error' = ErrorRender(2, claves', localidades', localidad_sel')
  /\ InformeOlvidado
  /\ UNCHANGED <<tiene_nombres, tiene_id_area, dataframes>>
  /\ UNCHANGED <<area_wgs, manzanas_zona, est, col, manzanas_pot, total_loc,
                 metricas, hecho, corridas, bucleVars>>

InformeNext ==
  \/ Informar
  \/ VolverPunto
  \/ NuevoAnalisis

SpecInforme == InformeInit /\ [][InformeNext]_vars

\* ------------------------------------------------ C14: immutable layers
\* C14: once the five layers are in the session they stay there unchanged:
\* from step 2 on they are the loaded datasets, and no navigation and no
\* analysis run changes or removes any of them.
C14_CapasInmutables ==
  /\ [](step >= 2 => (ClavesCapas \subseteq claves /\ Capas = dataframes))
  /\ [][ClavesCapas \subseteq claves
          => (ClavesCapas \subseteq claves' /\ Capas' = Capas)]_vars

\* An analysis run has filtered and enriched the blocks of the session.
C14_Witness ==
  /\ step = 5
  /\ hecho
  /\ manzanas # <<>>
  /\ manzanas_zona # <<>>
  /\ manzanas_pot # <<>>
  /\ Capas = dataframes

\* ------------------------------------------------- C16: a new analysis
ClavesDeCorrida ==
  ClavesParametros \cup {"localidad_clic", "informe_data", "buffer_size"}

C17_UnPasoALaVez ==
  /\ [](step \in 1..5)
  /\ [][step' \in {step - 1, step, step + 1}]_vars

\* ------------------------------------------- C20: layers and locality
\* C20: from step 2 on the five layers are in the session, and from step 3
\* on localidad_sel is in the session and is the name of a locality of the
\* layer, so that the lookups of the locality code of steps 4 and 5 find a
\* row.
C20_LocalidadValida ==
  /\ step >= 2 => ClavesCapas \subseteq claves
  /\ step >= 3 =>
       /\ "localidad_sel" \in claves
       /\ localidad_sel # Ninguno
       /\ \E k \in 1..Len(localidades) :
            localidades[k].nombre_localidad = localidad_sel
       /\ error.tipo # "IndexError"
       /\ error.linea \notin {114, 180, 218, 225, 228, 334, 341}

\* Step 4 has been rendered for the second locality after a click outside
\* every locality and a restart.
C20_Witness ==
  /\ step = 4
  /\ error = SinError
  /\ localidad_sel = "Chapinero"
  /\ localidad_clic = "Chapinero"
  /\ "punto_lat" \in claves
  /\ clic_punto = <<>>


\* ------------------------------------------------- repeated run spec
\* A session at step 5 whose station and school layers have records, the
\* script running on it more than once.
RepetidaInit ==
  /\ BucleReposo
  /\ InformeReposo
  /\ LocalesReposo
  /\ claves = {"step"} \cup ClavesCapas \cup ClavesParametros
  /\ localidades = Localidades
  /\ areas = <<>>
  /\ manzanas = <<>>
  /\ transporte \in TransporteSesion
  /\ colegios \in ColegiosSesion
  /\ localidad_sel \in {Localidades[k].nombre_localidad : k \in 1..Len(Localidades)}
  /\ radio_analisis \in Radios
  /\ punto \in Puntos
  /\ informe_data = <<>>
  /\ tiene_nombres = [transporte |-> TRUE, colegios |-> TRUE]
  /\ tiene_id_area = TRUE
  /\ AsistenteReposo

RepetidaNext ==
  \/ Paso5
  \/ Reejecutar

SpecRepetida == RepetidaInit /\ [][RepetidaNext]_vars

\* ------------------------------------------------- C15: idempotence
\* The coordinates of the point and multi-point records of a layer that are
\* inside the buffer of the session.
EnBuffer(filas) ==
  {p \in UNION {PuntosDeFila(filas[k]) : k \in 1..Len(filas)} :
     p \in Buffer(punto, radio_analisis).interior}

C18_ManzanasDentro ==
  hecho =>
    \A k \in 1..Len(manzanas_zona) :
      manzanas_zona[k].celdas \subseteq area_wgs.interior

\* ------------------------------------------------- C19: parallel lists
\* C19: after every iteration of the station loop and of the school loop the
\* list of classified points, the list of their coordinates and the list of
\* their names have the same length and the point at position k is the
\* coordinate at position k; an iteration only adds entries at the end, so
\* the name at position k stays the one given when its point was added, and
\* a later record at a coordinate already listed changes nothing: the name
\* kept is the one of the record met first.
C19_ListasAlineadas ==
  /\ [](/\ Len(listas.area) = Len(listas.coords)
        /\ Len(listas.nombres) = Len(listas.coords)
        /\ \A k \in 1..Len(listas.coords) : listas.area[k] = listas.coords[k])
  /\ [][/\ Len(listas'.coords) >= Len(listas.coords)
        /\ Len(listas'.nombres) >= Len(listas.nombres)
        /\ \A k \in 1..Len(listas.coords) :
             /\ listas'.coords[k] = listas.coords[k]
             /\ listas'.nombres[k] = listas.nombres[k]]_vars

\* A two-point record named "A;B" has been iterated after a record with a
\* null name at the coordinate of its first point: the first entry still
\* carries the earlier record's "nan", the second point was added as "B".
C19_Witness ==
  /\ tiene_nombres[capa]
  /\ n_filas >= 2
  /\ row.geometry.tipo = "MultiPoint"
  /\ Len(row.geometry.geoms) = 2
  /\ row.nombres = <<"A", ";", "B">>
  /\ Len(listas.coords) = 2
  /\ row.geometry.geoms[1] = listas.coords[1]
  /\ row.geometry.geoms[2] = listas.coords[2]
  /\ listas.nombres = << <<"n", "a", "n">>, <<"B">> >>

\* ------------------------------------------- C21: percent of the locality
\* C21: in every run that has counted the locality-wide total of stations
\* (of schools) and found it positive, the number of stations (schools)
\* classified in the buffer is at most that total, so the share of the
\* locality that the buffer holds is between 0 and 100 percent.
C21_PorcentajeAcotado ==
  hecho =>
    /\ \A k \in 1..Len(total_loc.estaciones) :
         total_loc.estaciones[k] > 0 =>
           Len(est.area) <= total_loc.estaciones[k]
    /\ \A k \in 1..Len(total_loc.colegios) :
         total_loc.colegios[k] > 0 =>
           Len(col.area) <= total_loc.colegios[k]

=============================================================================
